---- MODULE Spec2Model ----
(***************************************************************************)
(* python3/unittest/import_file.py: import_from_file and get_module.        *)
(*                                                                         *)
(* The process-wide registry sys.modules, the module objects created by    *)
(* util.module_from_spec, standard output, and the position of every       *)
(* running call are the state.  Every statement of the two functions is    *)
(* one action, so that the order "register, then execute" and the thread   *)
(* switches Python allows between statements are visible.                  *)
(***************************************************************************)
EXTENDS Naturals, Sequences, FiniteSets

VARIABLES
    sys_modules,  \* sys.modules restricted to the names the callers use: name -> handle
    heap,         \* the module objects, in allocation order; a handle is an index
    stdout,       \* what print() has written, one element per call of print
    pc,           \* per thread: the statement the running call is at
    func,         \* per thread: the function the caller invoked
    module_name,  \* per thread: argument module_name
    file_path,    \* per thread: argument file_path of import_from_file
    rel_path,     \* per thread: argument file_path of get_module
    spec,         \* per thread: local spec (carries local loader)
    module,       \* per thread: local module (a handle)
    ip,           \* per thread: next statement of the file's code in exec_module
    result,       \* per thread: the value returned to the caller
    err,          \* per thread: the exception that left the call
    regBefore,    \* per thread: sys_modules when the call was made (history)
    outBefore,    \* per thread: stdout when the call was made (history)
    nwrites,      \* per thread: registry writes made by the running call (history)
    log,          \* the finished calls, in the order they finished (history)
    reads         \* the registry reads made by executing file code (history)

vars == <<sys_modules, heap, stdout, pc, func, module_name, file_path, rel_path,
          spec, module, ip, result, err, regBefore, outBefore, nwrites, log, reads>>

----------------------------------------------------------------------------
(* Bounds *)

\* calls made in one behaviour, over all threads
MaxCalls == 3

\* calls made in one behaviour of the two-thread specification
MaxConcCalls == 2

----------------------------------------------------------------------------
(* Values *)

\* Python's None, and "no handle"
NULL == 0

NoErr == "none"

\* None where a loader, a ModuleSpec or a module object is expected
NoLoader == [name |-> "", path |-> <<>>]
NoSpec == [name |-> "", loader |-> NoLoader, origin |-> <<>>]
NoObject == [name |-> "", file |-> <<>>, attrs |-> {}, seen |-> NULL,
             complete |-> FALSE, owner |-> "nobody"]

MainThread == "main"

Threads == {MainThread, "other"}

Names == {"a", "b"}

\* os.path.dirname(__file__): the directory holding import_file.py
testdir == <<"python3", "unittest">>

\* paths are sequences of components; these are the ones handed to get_module
RelPaths == {<<"good.txt">>, <<"selfref.txt">>, <<"bad.txt">>, <<"syn.txt">>, <<"missing.txt">>}

\* "{}/{}".format(testdir, file_path)
format(dir, path) == dir \o path

\* the paths handed to import_from_file
AbsPaths == {format(testdir, r) : r \in RelPaths}

\* the paths the two racing threads load
ConcPaths == {format(testdir, <<"good.txt">>), format(testdir, <<"selfref.txt">>),
              format(testdir, <<"bad.txt">>)}

----------------------------------------------------------------------------
(* The files on disk and their code *)

Def(id) == [op |-> "def", arg |-> id]
Lookup == [op |-> "lookup", arg |-> "seen"]
RaiseStmt(e) == [op |-> "raise", arg |-> e]

\* the files that exist
Exists(path) ==
    path \in {format(testdir, <<"good.txt">>), format(testdir, <<"selfref.txt">>),
              format(testdir, <<"bad.txt">>), format(testdir, <<"syn.txt">>)}

\* the files whose text compiles
Compiles(path) == Exists(path) /\ path # format(testdir, <<"syn.txt">>)

\* the statements of a file that compiles
Source(path) ==
    IF path = format(testdir, <<"good.txt">>) THEN <<Def("f"), Def("g")>>
    ELSE IF path = format(testdir, <<"selfref.txt">>)
         THEN <<Def("f"), Lookup, Def("g")>>
    ELSE IF path = format(testdir, <<"bad.txt">>)
         THEN <<Def("x"), RaiseStmt("ValueError"), Def("y")>>
    ELSE <<>>

----------------------------------------------------------------------------
(* importlib *)

\* machinery.SourceFileLoader(module_name, file_path): stores both, opens nothing
SourceFileLoader(name, path) == [name |-> name, path |-> path]

\* util.spec_from_loader(module_name, loader): the loader has get_filename, so a
\* ModuleSpec is always built; the file is not looked at
spec_from_loader(name, loader) == [name |-> name, loader |-> loader, origin |-> loader.path]

\* assert spec; assert spec.loader
AssertsPass(s) == s # NoSpec /\ s.loader # NoLoader

\* util.module_from_spec(spec): a new module object holding only the import attributes
module_from_spec(s, owner) ==
    [name |-> s.name, file |-> s.origin, attrs |-> {}, seen |-> NULL,
     complete |-> FALSE, owner |-> owner]

\* SourceFileLoader.get_code, the first thing exec_module does: read and compile
get_code(path) ==
    IF ~Exists(path) THEN [err |-> "FileNotFoundError", code |-> <<>>]
    ELSE IF ~Compiles(path) THEN [err |-> "SyntaxError", code |-> <<>>]
    ELSE [err |-> NoErr, code |-> Source(path)]

----------------------------------------------------------------------------

Init ==
    /\ sys_modules = [n \in Names |-> NULL]
    /\ heap = <<>>
    /\ stdout = <<>>
    /\ pc = [t \in Threads |-> "idle"]
    /\ func = [t \in Threads |-> "none"]
    /\ module_name = [t \in Threads |-> "a"]
    /\ file_path = [t \in Threads |-> <<>>]
    /\ rel_path = [t \in Threads |-> <<>>]
    /\ spec = [t \in Threads |-> NoSpec]
    /\ module = [t \in Threads |-> NULL]
    /\ ip = [t \in Threads |-> 0]
    /\ result = [t \in Threads |-> NULL]
    /\ err = [t \in Threads |-> NoErr]
    /\ regBefore = [t \in Threads |-> [n \in Names |-> NULL]]
    /\ outBefore = [t \in Threads |-> 0]
    /\ nwrites = [t \in Threads |-> 0]
    /\ log = <<>>
    /\ reads = {}

\* calls made so far
Started == Len(log) + Cardinality({t \in Threads : pc[t] \notin {"idle", "done"}})

\* the record of a call as it ends
LogEntry(t, res, e) ==
    [thread |-> t, func |-> func[t], name |-> module_name[t], path |-> file_path[t],
     rel |-> rel_path[t], res |-> res, err |-> e,
     obj |-> IF module[t] = NULL THEN NoObject ELSE heap[module[t]],
     mod |-> module[t], reg |-> sys_modules[module_name[t]],
     regAll |-> sys_modules, regBefore |-> regBefore[t],
     out |-> Len(stdout) - outBefore[t], nwrites |-> nwrites[t]]

\* the locals of a fresh call
Enter(t, f, n, p, r, at, bound) ==
    /\ pc[t] \in {"idle", "done"}
    /\ Started < bound
    /\ pc' = [pc EXCEPT ![t] = at]
    /\ func' = [func EXCEPT ![t] = f]
    /\ module_name' = [module_name EXCEPT ![t] = n]
    /\ file_path' = [file_path EXCEPT ![t] = p]
    /\ rel_path' = [rel_path EXCEPT ![t] = r]
    /\ spec' = [spec EXCEPT ![t] = NoSpec]
    /\ module' = [module EXCEPT ![t] = NULL]
    /\ ip' = [ip EXCEPT ![t] = 0]
    /\ result' = [result EXCEPT ![t] = NULL]
    /\ err' = [err EXCEPT ![t] = NoErr]
    /\ regBefore' = [regBefore EXCEPT ![t] = sys_modules]
    /\ outBefore' = [outBefore EXCEPT ![t] = Len(stdout)]
    /\ nwrites' = [nwrites EXCEPT ![t] = 0]
    /\ UNCHANGED <<sys_modules, heap, stdout, log, reads>>

\* a caller invokes import_from_file(n, p)
CallImportFromFile(t) ==
    \E n \in Names, p \in AbsPaths : Enter(t, "import_from_file", n, p, <<>>, "l11", MaxCalls)

\* one of two threads invokes import_from_file(n, p)
CallConcurrently(t) ==
    \E n \in Names, p \in ConcPaths :
        Enter(t, "import_from_file", n, p, <<>>, "l11", MaxConcCalls)

\* a caller invokes get_module(n, r)
CallGetModule(t) ==
    \E n \in Names, r \in RelPaths : Enter(t, "get_module", n, <<>>, r, "l23", MaxCalls)

\* get_module, lines 23-25: dirname, print, and the call of import_from_file
GetModuleBody(t) ==
    /\ pc[t] = "l23"
    /\ stdout' = Append(stdout, testdir)
    /\ file_path' = [file_path EXCEPT ![t] = format(testdir, rel_path[t])]
    /\ pc' = [pc EXCEPT ![t] = "l11"]
    /\ UNCHANGED <<sys_modules, heap, func, module_name, rel_path, spec, module, ip,
                   result, err, regBefore, outBefore, nwrites, log, reads>>

\* lines 17 and 18 exchanged: the file's code runs before the module is registered
After_ExecuteFirst(at) ==
    CASE at = "l11" -> "l15"
      [] at = "l15" -> "l18"
      [] at = "l18" -> "l17"
      [] at = "l17" -> "l19"

\* import_from_file, top to bottom: the statement that follows the one at `at`
After(at) ==
    CASE at = "l11" -> "l15"
      [] at = "l15" -> "l17"
      [] at = "l17" -> "l18"
      [] at = "l18" -> "l19"

\* the exception caught and raised again as an ImportError
Propagate_Wrapped(t, e) ==
    /\ pc' = [pc EXCEPT ![t] = "done"]
    /\ err' = [err EXCEPT ![t] = "ImportError"]
    /\ log' = Append(log, LogEntry(t, NULL, "ImportError"))

\* an exception e leaves the call of thread t: nothing catches it
Propagate(t, e) ==
    /\ pc' = [pc EXCEPT ![t] = "done"]
    /\ err' = [err EXCEPT ![t] = e]
    /\ log' = Append(log, LogEntry(t, NULL, e))

\* import_from_file, lines 11-14: the loader, the spec and the two asserts
ResolveSpec(t) ==
    /\ pc[t] = "l11"
    /\ LET s == spec_from_loader(module_name[t], SourceFileLoader(module_name[t], file_path[t]))
       IN  /\ spec' = [spec EXCEPT ![t] = s]
           /\ IF AssertsPass(s)
              THEN /\ pc' = [pc EXCEPT ![t] = After("l11")]
                   /\ UNCHANGED <<err, log>>
              ELSE Propagate(t, "AssertionError")
    /\ UNCHANGED <<sys_modules, heap, stdout, func, module_name, file_path, rel_path,
                   module, ip, result, regBefore, outBefore, nwrites, reads>>

\* line 15 with a cache keyed by name: an object already registered is taken again
ModuleFromSpec_ReuseRegistered(t) ==
    /\ pc[t] = "l15"
    /\ IF sys_modules[module_name[t]] # NULL
       THEN /\ module' = [module EXCEPT ![t] = sys_modules[module_name[t]]]
            /\ UNCHANGED heap
       ELSE /\ heap' = Append(heap, module_from_spec(spec[t], t))
            /\ module' = [module EXCEPT ![t] = Len(heap) + 1]
    /\ pc' = [pc EXCEPT ![t] = After("l15")]
    /\ UNCHANGED <<sys_modules, stdout, func, module_name, file_path, rel_path, spec,
                   ip, result, err, regBefore, outBefore, nwrites, log, reads>>

\* line 15 with a cache keyed by file: the object made for the same file is taken again
ModuleFromSpec_ReuseFile(t) ==
    /\ pc[t] = "l15"
    /\ LET same == {h \in 1..Len(heap) : heap[h].file = spec[t].origin}
       IN  IF same # {}
           THEN /\ module' = [module EXCEPT ![t] = CHOOSE h \in same : TRUE]
                /\ UNCHANGED heap
           ELSE /\ heap' = Append(heap, module_from_spec(spec[t], t))
                /\ module' = [module EXCEPT ![t] = Len(heap) + 1]
    /\ pc' = [pc EXCEPT ![t] = After("l15")]
    /\ UNCHANGED <<sys_modules, stdout, func, module_name, file_path, rel_path, spec,
                   ip, result, err, regBefore, outBefore, nwrites, log, reads>>

\* import_from_file, line 15: module = util.module_from_spec(spec)
ModuleFromSpec(t) ==
    /\ pc[t] = "l15"
    /\ heap' = Append(heap, module_from_spec(spec[t], t))
    /\ module' = [module EXCEPT ![t] = Len(heap) + 1]
    /\ pc' = [pc EXCEPT ![t] = After("l15")]
    /\ UNCHANGED <<sys_modules, stdout, func, module_name, file_path, rel_path, spec,
                   ip, result, err, regBefore, outBefore, nwrites, log, reads>>

\* the write left out
SetItem_Skipped(reg, name, handle) == reg

\* the write made under every key
SetItem_Clobber(reg, name, handle) == [n \in DOMAIN reg |-> handle]

\* the registry replaced by one holding this entry alone
SetItem_Fresh(reg, name, handle) == [n \in DOMAIN reg |-> IF n = name THEN handle ELSE NULL]

\* the registry after sys.modules[name] = handle
SetItem(reg, name, handle) == [reg EXCEPT ![name] = handle]

\* import_from_file, line 17: sys.modules[module_name] = module
Register(t) ==
    /\ pc[t] = "l17"
    /\ sys_modules' = SetItem(sys_modules, module_name[t], module[t])
    /\ nwrites' = [nwrites EXCEPT ![t] = @ + 1]
    /\ pc' = [pc EXCEPT ![t] = After("l17")]
    /\ UNCHANGED <<heap, stdout, func, module_name, file_path, rel_path, spec, module,
                   ip, result, err, regBefore, outBefore, log, reads>>

\* import_from_file, line 18, first half: exec_module reads and compiles the file
ExecModule(t) ==
    /\ pc[t] = "l18"
    /\ LET c == get_code(spec[t].loader.path)
       IN  IF c.err # NoErr
           THEN /\ Propagate(t, c.err)
                /\ UNCHANGED <<ip, heap>>
           ELSE /\ ip' = [ip EXCEPT ![t] = 1]
                /\ pc' = [pc EXCEPT ![t] = "run"]
                /\ UNCHANGED <<err, log, heap>>
    /\ UNCHANGED <<sys_modules, stdout, func, module_name, file_path, rel_path, spec,
                   module, result, regBefore, outBefore, nwrites, reads>>

\* the module object after one statement of the file ran in it
Effect(obj, stmt, reg) ==
    IF stmt.op = "def" THEN [obj EXCEPT !.attrs = @ \cup {stmt.arg}]
    ELSE IF stmt.op = "lookup"
         THEN [obj EXCEPT !.attrs = @ \cup {stmt.arg}, !.seen = reg[obj.name]]
    ELSE obj

\* import_from_file, line 18, second half: one statement of the file's code runs in
\* the module's namespace; after the last one exec_module returns
ExecStmt(t) ==
    /\ pc[t] = "run"
    /\ LET code == Source(spec[t].loader.path)
           stmt == code[ip[t]]
           last == ip[t] = Len(code)
       IN  IF stmt.op = "raise"
           THEN /\ Propagate(t, stmt.arg)
                /\ UNCHANGED <<heap, ip, reads>>
           ELSE /\ heap' = [heap EXCEPT ![module[t]] =
                               [Effect(@, stmt, sys_modules) EXCEPT !.complete = last]]
                /\ ip' = [ip EXCEPT ![t] = @ + 1]
                /\ pc' = [pc EXCEPT ![t] = IF last THEN After("l18") ELSE "run"]
                /\ reads' = IF stmt.op = "lookup"
                            THEN reads \cup
                                 {[reader |-> module[t],
                                   got |-> sys_modules[module_name[t]],
                                   complete |->
                                       IF sys_modules[module_name[t]] = NULL THEN FALSE
                                       ELSE heap[sys_modules[module_name[t]]].complete]}
                            ELSE reads
                /\ UNCHANGED <<err, log>>
    /\ UNCHANGED <<sys_modules, stdout, func, module_name, file_path, rel_path, spec,
                   module, result, regBefore, outBefore, nwrites>>

\* import_from_file, line 19: return module
Return(t) ==
    /\ pc[t] = "l19"
    /\ result' = [result EXCEPT ![t] = module[t]]
    /\ pc' = [pc EXCEPT ![t] = "done"]
    /\ log' = Append(log, LogEntry(t, module[t], NoErr))
    /\ UNCHANGED <<sys_modules, heap, stdout, func, module_name, file_path, rel_path,
                   spec, module, ip, err, regBefore, outBefore, nwrites, reads>>

\* the statements of import_from_file
Body(t) ==
    \/ ResolveSpec(t)
    \/ ModuleFromSpec(t)
    \/ Register(t)
    \/ ExecModule(t)
    \/ ExecStmt(t)
    \/ Return(t)

\* the documented use: one thread, one call after the other
Next ==
    \/ CallImportFromFile(MainThread)
    \/ CallGetModule(MainThread)
    \/ GetModuleBody(MainThread)
    \/ Body(MainThread)

Spec == Init /\ [][Next]_vars

\* two threads calling with no synchronisation; a switch can fall between any two steps
NextConc == \E t \in Threads : CallConcurrently(t) \/ Body(t)

SpecConc == Init /\ [][NextConc]_vars

----------------------------------------------------------------------------
(* What the claims speak of *)

\* the finished calls
Calls == 1..Len(log)

Succeeded(e) == e.err = NoErr

\* the place of the first raise statement in a file's code, 0 when it has none
RaiseIndex(code) ==
    IF \E i \in 1..Len(code) : code[i].op = "raise"
    THEN CHOOSE i \in 1..Len(code) :
             code[i].op = "raise" /\ \A j \in 1..(i - 1) : code[j].op # "raise"
    ELSE 0

\* the names the statements before place k bind
BoundBefore(code, k) == {code[i].arg : i \in 1..(k - 1)}

\* the file's own code raises when it is run
CodeRaises(path) == Compiles(path) /\ RaiseIndex(Source(path)) > 0

\* the running call of thread t has made the registry write of line 17
HasRegistered(t) == pc[t] \in {"l18", "run", "l19", "done"} /\ nwrites[t] > 0

----------------------------------------------------------------------------
(* C1 *)

\* C1: whenever import_from_file returns successfully, the handle returned is not
\* None, the file exists and compiles, and at the moment of the return (and until
\* the caller calls again) sys.modules[module_name] is that very handle.
C1_ReturnedHandleIsRegistered ==
    /\ \A i \in Calls :
           Succeeded(log[i]) =>
               /\ log[i].res # NULL
               /\ log[i].reg = log[i].res
               /\ Compiles(log[i].path)
    /\ (pc[MainThread] = "done" /\ err[MainThread] = NoErr) =>
           /\ result[MainThread] # NULL
           /\ sys_modules[module_name[MainThread]] = result[MainThread]

C1_Witness ==
    /\ pc[MainThread] = "done"
    /\ err[MainThread] = NoErr
    /\ func[MainThread] = "import_from_file"
    /\ sys_modules[module_name[MainThread]] = result[MainThread]
    /\ heap[result[MainThread]].attrs = {"f", "g"}

----------------------------------------------------------------------------
(* C2 *)

\* C2: a call on a path that does not exist ends in FileNotFoundError, and the
\* registry is then what it was when the call was made.
C2_MissingFileLeavesRegistry ==
    \A i \in Calls :
        ~Exists(log[i].path) =>
            /\ log[i].err = "FileNotFoundError"
            /\ log[i].regAll = log[i].regBefore

----------------------------------------------------------------------------
(* C3 *)

\* C3: in every state in which exec_module is at work (reading the file, or
\* running its statements), sys.modules[module_name] is already the module this
\* call is populating; a statement of the file that looks its own name up gets
\* that module, not yet complete.
C3_RegisteredBeforeExecuting ==
    /\ pc[MainThread] \in {"l18", "run"} =>
           /\ module[MainThread] # NULL
           /\ sys_modules[module_name[MainThread]] = module[MainThread]
    /\ \A r \in reads : r.got = r.reader /\ ~r.complete

C3_Witness ==
    /\ pc[MainThread] = "run"
    /\ ip[MainThread] = 3
    /\ heap[module[MainThread]].seen = module[MainThread]
    /\ sys_modules[module_name[MainThread]] = module[MainThread]

----------------------------------------------------------------------------
(* C4 *)

\* C4: when the file's own code raises, the call ends in that very exception, no
\* handle is returned, and sys.modules[module_name] is still the module made by
\* this call, holding what the statements before the raise bound and nothing of
\* what comes after.
C4_ExecutionErrorPropagates ==
    \A i \in Calls :
        CodeRaises(log[i].path) =>
            LET code == Source(log[i].path)
                k == RaiseIndex(code)
            IN  /\ log[i].err = code[k].arg
                /\ log[i].res = NULL
                /\ log[i].mod # NULL
                /\ log[i].reg = log[i].mod
                /\ log[i].obj.attrs = BoundBefore(code, k)
                /\ ~log[i].obj.complete
                /\ (i = Len(log) /\ pc[MainThread] = "done") =>
                       /\ sys_modules[log[i].name] = log[i].mod
                       /\ result[MainThread] = NULL

C4_Witness ==
    /\ pc[MainThread] = "done"
    /\ err[MainThread] = "ValueError"
    /\ result[MainThread] = NULL
    /\ sys_modules[module_name[MainThread]] = module[MainThread]
    /\ heap[module[MainThread]].attrs = {"x"}

----------------------------------------------------------------------------
(* C5 *)

\* C5: of two successful calls with the same name, the later one returns another
\* object than the earlier, the registry entry at its return is its own handle and
\* not the earlier one, and the object the earlier call returned is still exactly
\* what it was when it was returned.
C5_LastWriteWins ==
    \A i \in Calls : \A j \in Calls :
        (i < j /\ log[i].name = log[j].name /\ Succeeded(log[i]) /\ Succeeded(log[j])) =>
            /\ log[j].res # log[i].res
            /\ log[j].reg = log[j].res
            /\ log[j].reg # log[i].res
            /\ heap[log[i].res] = log[i].obj
            /\ (j = Len(log) /\ pc[MainThread] = "done") =>
                   sys_modules[log[j].name] = log[j].res

C5_Witness ==
    /\ Len(log) = 2
    /\ pc[MainThread] = "done"
    /\ log[1].name = log[2].name
    /\ Succeeded(log[1]) /\ Succeeded(log[2])
    /\ log[1].path # log[2].path
    /\ sys_modules[log[1].name] = log[2].res
    /\ heap[log[1].res] = log[1].obj

----------------------------------------------------------------------------
(* C6 *)

\* C6: of two successful calls on the same file with different names, in either
\* order of the names, the two handles are different objects; at the return of the
\* later call the registry holds the later handle under the later name, and the
\* earlier handle under the earlier name unless a call made in between used the
\* earlier name again.
C6_SameFileTwoNames ==
    \A i \in Calls : \A j \in Calls :
        (/\ i < j
         /\ log[i].path = log[j].path
         /\ log[i].name # log[j].name
         /\ Succeeded(log[i]) /\ Succeeded(log[j])) =>
            /\ log[i].res # log[j].res
            /\ log[i].res # NULL /\ log[j].res # NULL
            /\ log[j].regAll[log[j].name] = log[j].res
            /\ (\A k \in Calls : (i < k /\ k < j) => log[k].name # log[i].name) =>
                   log[j].regAll[log[i].name] = log[i].res

C6_Witness ==
    /\ Len(log) = 2
    /\ pc[MainThread] = "done"
    /\ log[1].path = log[2].path
    /\ log[1].name = "b" /\ log[2].name = "a"
    /\ Succeeded(log[1]) /\ Succeeded(log[2])
    /\ sys_modules["b"] = log[1].res
    /\ sys_modules["a"] = log[2].res
    /\ log[1].res # log[2].res

----------------------------------------------------------------------------
(* C7 *)

\* C7: a call of get_module(N, R) runs import_from_file on testdir/R, ends as a
\* call of import_from_file(N, testdir/R) made in the same registry ends, and does
\* nothing else that can be observed: in particular it writes nothing to standard
\* output.
C7_GetModuleAddsNothing ==
    \A i \in Calls :
        log[i].func = "get_module" =>
            /\ log[i].path = format(testdir, log[i].rel)
            /\ log[i].out = 0
            /\ \A j \in Calls :
                   (/\ log[j].func = "import_from_file"
                    /\ log[j].name = log[i].name
                    /\ log[j].path = log[i].path) =>
                       /\ log[j].err = log[i].err
                       /\ (log[j].res = NULL) = (log[i].res = NULL)
                       /\ log[j].obj.attrs = log[i].obj.attrs
                       /\ (log[j].reg = log[j].mod) = (log[i].reg = log[i].mod)

----------------------------------------------------------------------------
(* C8 *)

\* C8: the two asserts come before the module object is made and before the
\* registry is written; a call they end raises AssertionError with the registry as
\* it was; and they are what stops a call whose file cannot be found, so that no
\* such call goes on to the registry write.
C8_AssertsStopUnresolvedFile ==
    /\ \A t \in Threads : pc[t] = "l11" => (module[t] = NULL /\ nwrites[t] = 0)
    /\ \A i \in Calls :
           log[i].err = "AssertionError" =>
               (log[i].regAll = log[i].regBefore /\ log[i].mod = NULL)
    /\ \A t \in Threads : HasRegistered(t) => Exists(file_path[t])
    /\ \A i \in Calls : ~Exists(log[i].path) => log[i].nwrites = 0

----------------------------------------------------------------------------
(* C9 *)

\* C9: with two threads and no lock, a call can return a handle that is not the
\* registry's entry for its name, and a file's code can read from the registry a
\* module that is not complete and not its own.  Whenever either happens, the
\* object found in the registry was put there by a call of the other thread made
\* with the same name.
C9_RaceIsOnTheSameName ==
    /\ \A i \in Calls :
           (Succeeded(log[i]) /\ log[i].reg # log[i].res) =>
               /\ log[i].reg # NULL
               /\ heap[log[i].reg].name = log[i].name
               /\ heap[log[i].reg].owner # log[i].thread
    /\ \A r \in reads :
           r.got # r.reader =>
               /\ r.got # NULL
               /\ heap[r.got].name = heap[r.reader].name
               /\ heap[r.got].owner # heap[r.reader].owner

C9_Witness ==
    /\ \E i \in Calls : Succeeded(log[i]) /\ log[i].reg # log[i].res
    /\ \E r \in reads : r.got # r.reader /\ ~r.complete

----------------------------------------------------------------------------
(* C10 *)

\* C10: a call, running or finished, with whatever outcome, has written the
\* registry at most once; every entry under another name than its own is the
\* object it was when the call was made; and no entry that was there is gone.
C10_Frame ==
    /\ \A i \in Calls :
           /\ log[i].nwrites <= 1
           /\ \A m \in Names \ {log[i].name} : log[i].regAll[m] = log[i].regBefore[m]
           /\ \A m \in Names : log[i].regBefore[m] # NULL => log[i].regAll[m] # NULL
    /\ pc[MainThread] # "idle" =>
           /\ nwrites[MainThread] <= 1
           /\ \A m \in Names \ {module_name[MainThread]} :
                  sys_modules[m] = regBefore[MainThread][m]
           /\ \A m \in Names : regBefore[MainThread][m] # NULL => sys_modules[m] # NULL

C10_Witness ==
    /\ pc[MainThread] = "done"
    /\ module_name[MainThread] = "a"
    /\ regBefore[MainThread]["a"] # NULL
    /\ regBefore[MainThread]["b"] # NULL
    /\ sys_modules["a"] # regBefore[MainThread]["a"]
    /\ sys_modules["b"] = regBefore[MainThread]["b"]
    /\ nwrites[MainThread] = 1

====
